---- MODULE Spec2Model ----
(***************************************************************************)
(* A model of the radio cell of ai-ran-sim                                 *)
(* (src/backend/network_layer/cell.py): UE registration, the per-tick      *)
(* pipeline Cell.step (signal estimation, MCS selection, PRB allocation,   *)
(* bitrate estimation) and the writes an external controller makes to the  *)
(* per-UE cap and the slice weights.                                       *)
(*                                                                         *)
(* A Python exception is modelled by the variable raised: an operation     *)
(* that raises keeps every write it made before the raising line and       *)
(* skips the rest of its body.                                             *)
(*                                                                         *)
(* Slice weights are integers: the allocator divides every weight by the   *)
(* sum of the weights, so shares are the rationals w / ws and a fractional *)
(* remainder is compared by its numerator over the common denominator. The *)
(* code computes them in floating point: two remainders that are equal as  *)
(* rationals but come from different weights can differ by a rounding      *)
(* error in either direction, so their order is an input of the            *)
(* computation (ties), while remainders computed from equal weights are    *)
(* equal floats and are ordered by the slice name.                         *)
(***************************************************************************)
EXTENDS Integers, FiniteSets, Sequences, TLC

\* ------------------------------------------------------------------ bounds

\* Number of UE objects of the simulation (ue_imsi 1..NumUEs).
NumUEs == 2

\* max_dl_prb of the cell is drawn from 0..MaxDlPrb at construction.
MaxDlPrb == 2

\* In the specification of the slice budgets, max_dl_prb is drawn from
\* 0..MaxStage2Budget.
MaxStage2Budget == 9

\* The UE that exposes a downlink buffer starts with BufferBytes bytes in it.
BufferBytes == 1

\* The KPI logger is followed until its CSV file holds MaxCsvRows rows.
MaxCsvRows == 4

UEs == 1 .. NumUEs

\* ----------------------------------------------------------- value domains

\* An optional value (None or a value) is a sequence of length 0 or 1.
None == << >>
Some(v) == << v >>

\* The slice names of the default weight mapping.
Slices == {"eMBB", "URLLC", "mMTC"}

\* Slice tags the UEs carry (ue.slice_type): no UE is tagged URLLC, so the
\* default weights always name a slice without a UE.
UeSlices == {"eMBB", "mMTC"}

\* Python's string order of the slice names, as sorted() compares them:
\* "URLLC" < "eMBB" < "mMTC" (upper case sorts before lower case).
SliceRank(s) == CASE s = "URLLC" -> 1 [] s = "eMBB" -> 2 [] s = "mMTC" -> 3

\* The slice names in Python's string order, as a ranking.
NameOrder == [s \in Slices |-> SliceRank(s)]

\* The rankings of the slice names: the orders in which a sort can leave
\* remainders that are equal as rationals.
TieOrders ==
    {t \in [Slices -> 1 .. Cardinality(Slices)] : \A a, b \in Slices : a # b => t[a] # t[b]}

\* GBR_DL values of a UE's qos_profile.
GbrValues == {0, 3}

\* downlink_cqi values a UE reports: 0 is the unusable sentinel, 4 has no
\* entry in the CQI table.
CqiValues == 0 .. 4

\* Values the controller writes to prb_per_ue_cap (_set_cap: int(val) or None).
CapValues == {None, Some(0), Some(1)}

\* Slice-weight mappings the cell can hold: the default, all-zero weights
\* and the empty mapping (for which the allocator uses {eMBB: 1.0}, a
\* mapping that leaves the slice of an mMTC UE out).
RAN_DEFAULT_SLICE_WEIGHTS == [s \in Slices |->
    CASE s = "eMBB" -> 6 [] s = "URLLC" -> 3 [] s = "mMTC" -> 1]

WeightChoices ==
    { RAN_DEFAULT_SLICE_WEIGHTS,
      [s \in Slices |-> 0],
      [s \in {} |-> 0] }

\* ------------------------------------------------------- external tables

\* settings.UE_CQI_MCS_SPECTRAL_EFFICIENCY_TABLE: CQI -> spectral efficiency.
UE_CQI_MCS_SPECTRAL_EFFICIENCY_TABLE ==
    [c \in 1 .. 3 |-> [spectral_efficiency |-> CASE c = 1 -> 1 [] c = 2 -> 2 [] c = 3 -> 4]]

\* settings.RAN_MCS_SPECTRAL_EFFICIENCY_TABLE: MCS index -> parameters, in
\* order of non-decreasing spectral efficiency.
RAN_MCS_SPECTRAL_EFFICIENCY_TABLE ==
    [i \in 0 .. 1 |->
        IF i = 0
        THEN [spectral_efficiency |-> 2, modulation_order |-> 2, target_code_rate |-> 1]
        ELSE [spectral_efficiency |-> 4, modulation_order |-> 2, target_code_rate |-> 2]]

\* utils.estimate_throughput(modulation_order, target_code_rate, n_prb):
\* linear in the number of PRBs.
estimate_throughput(modulation_order, target_code_rate, n_prb) ==
    modulation_order * target_code_rate * n_prb

\* ----------------------------------------------------------------- helpers

Max(a, b) == IF a >= b THEN a ELSE b
Min(a, b) == IF a <= b THEN a ELSE b

\* math.ceil(a / b) for b > 0.
CeilDiv(a, b) == -((-a) \div b)

RECURSIVE SumOver(_, _)
\* sum(f[x] for x in S)
SumOver(f, S) ==
    IF S = {} THEN 0
    ELSE LET x == CHOOSE y \in S : TRUE IN f[x] + SumOver(f, S \ {x})

\* ------------------------------------------------------------------- state

VARIABLES
    max_dl_prb,                     \* Cell.max_dl_prb (fixed at construction)
    connected_ue_list,              \* key set of Cell.connected_ue_list
    prb_ue_allocation_dict,         \* imsi -> [downlink, uplink]
    ue_uplink_signal_strength_dict, \* key set of the signal map
    dl_total_prb_demand,            \* imsi -> want
    dl_throughput_per_prb_map,      \* imsi -> throughput per PRB
    prb_per_ue_cap,                 \* None or Some(integer)
    slice_weights,                  \* slice name -> weight
    downlink_cqi,                   \* UE attribute, per imsi
    GBR_DL,                         \* UE attribute qos_profile["GBR_DL"], per imsi
    slice_type,                     \* UE attribute, per imsi
    downlink_mcs_index,             \* UE attribute, per imsi
    downlink_mcs_data,              \* UE attribute, per imsi: None or Some(record)
    downlink_bitrate,               \* UE attribute, per imsi
    dl_buffer_bytes,                \* UE attribute, per imsi: None when the UE has
                                    \* no such attribute, else Some(eighths of a byte)
    downlink_latency,               \* UE attribute, per imsi: None until the cell
                                    \* writes it, else Some(fraction)
    pc,                             \* where the simulation thread stands in a
                                    \* pass: "idle" between ticks, else the line
                                    \* of allocate_prb it executes next
    local_weights,                  \* the local variable weights of allocate_prb
    logger_file,                    \* xAppKpiLogger._file: "None" or "open"
    logger_writer,                  \* xAppKpiLogger._writer: "None", or a writer
                                    \* on a file object that is "open" or "closed"
    csv_rows,                       \* rows in the CSV file (0: no file yet)
    raised,                         \* exception the last operation raised
    last_op                         \* "step" right after Cell.step, else "other"

vars == << max_dl_prb, connected_ue_list, prb_ue_allocation_dict,
           ue_uplink_signal_strength_dict, dl_total_prb_demand,
           dl_throughput_per_prb_map, prb_per_ue_cap, slice_weights,
           downlink_cqi, GBR_DL, slice_type, downlink_mcs_index,
           downlink_mcs_data, downlink_bitrate, dl_buffer_bytes,
           downlink_latency, pc, local_weights, logger_file, logger_writer,
           csv_rows, raised, last_op >>

ue_vars == << downlink_cqi, GBR_DL, slice_type, downlink_mcs_index,
              downlink_mcs_data, downlink_bitrate, dl_buffer_bytes,
              downlink_latency >>

pass_vars == << pc, local_weights >>

logger_vars == << logger_file, logger_writer, csv_rows >>

\* The empty dict.
EmptyMap == [x \in {} |-> 0]

\* ------------------------------------------------------------ construction

\* The buffers of fresh UE objects: UE 1 exposes dl_buffer_bytes, the other
\* UEs have no such attribute. The buffer is counted in eighths of a byte, so
\* that (dl_bitrate / 8.0) * delta_time is the integer dl_bitrate * delta_time.
InitialBuffers == [u \in UEs |-> IF u = 1 THEN Some(8 * BufferBytes) ELSE None]

\* Cell.__init__ on a fresh set of UE objects: no UE attached, every map
\* empty, the default slice weights, no cap; no UE has measured its channel
\* or selected an MCS yet, and the cell has written no latency.
Init ==
    /\ max_dl_prb \in 0 .. MaxDlPrb
    /\ connected_ue_list = {}
    /\ prb_ue_allocation_dict = EmptyMap
    /\ ue_uplink_signal_strength_dict = {}
    /\ dl_total_prb_demand = EmptyMap
    /\ dl_throughput_per_prb_map = EmptyMap
    /\ prb_per_ue_cap = None
    /\ slice_weights = RAN_DEFAULT_SLICE_WEIGHTS
    /\ downlink_cqi = [u \in UEs |-> 0]
    /\ GBR_DL \in [UEs -> GbrValues]
    /\ slice_type \in [UEs -> UeSlices]
    /\ downlink_mcs_index = [u \in UEs |-> -1]
    /\ downlink_mcs_data = [u \in UEs |-> None]
    /\ downlink_bitrate = [u \in UEs |-> 0]
    /\ dl_buffer_bytes = InitialBuffers
    /\ downlink_latency = [u \in UEs |-> None]
    /\ pc = "idle"
    /\ local_weights = EmptyMap
    /\ logger_file = "None"
    /\ logger_writer = "None"
    /\ csv_rows = 0
    /\ raised = "none"
    /\ last_op = "other"

\* ------------------------------------------------------- module namespace

\* Whether the name collections is bound in cell.py: the module imports
\* math, settings and two names of utils, and nothing else.
collections_is_imported == FALSE

\* Whether the property allocated_dl_prb has a setter: it is declared with
\* @property alone, so an assignment to it raises AttributeError.
allocated_dl_prb_has_setter == FALSE

\* --------------------------------------------------------------- lifecycle

\* An initial entry that grants one uplink PRB.
ZeroAllocation_uplink_one == [downlink |-> 0, uplink |-> 1]

ZeroAllocation == [downlink |-> 0, uplink |-> 0]

\* f with key k set to v (a dict assignment f[k] = v).
Put(f, k, v) == [x \in (DOMAIN f) \cup {k} |-> IF x = k THEN v ELSE f[x]]

\* f without key k (del f[k]).
Del(f, k) == [x \in (DOMAIN f) \ {k} |-> f[x]]

\* A registration that forgets to create the allocation entry.
register_ue_result_no_entry(connected, allocation, u) ==
    [ connected |-> connected \cup {u},
      allocation |-> allocation,
      raised |-> "none" ]

\* Cell.register_ue: the new connected set and allocation map.
register_ue_result(connected, allocation, u) ==
    [ connected |-> connected \cup {u},
      allocation |-> Put(allocation, u, ZeroAllocation),
      raised |-> "none" ]

\* A deregistration whose del statements are not guarded: del of a missing
\* key raises KeyError.
deregister_ue_result_unguarded(connected, allocation, u) ==
    IF u \notin DOMAIN allocation
    THEN [connected |-> connected, allocation |-> allocation, raised |-> "KeyError"]
    ELSE [ connected |-> connected \ {u},
           allocation |-> Del(allocation, u),
           raised |-> IF u \in connected THEN "none" ELSE "KeyError" ]

\* Cell.deregister_ue: each removal is guarded by its own membership test.
deregister_ue_result(connected, allocation, u) ==
    [ connected |-> connected \ {u},
      allocation |-> IF u \in DOMAIN allocation THEN Del(allocation, u) ELSE allocation,
      raised |-> "none" ]

\* ------------------------------------------------------- signal estimation

\* A signal estimation that keeps the entries of earlier ticks.
monitor_ue_signal_strength_result_merge(connected) ==
    ue_uplink_signal_strength_dict \cup connected

\* Cell.monitor_ue_signal_strength: the map is rebuilt from the connected UEs.
monitor_ue_signal_strength_result(connected) == connected

\* ----------------------------------------------------------- MCS selection

RECURSIVE ScanMcs_strict(_, _, _)
\* A scan that compares with < instead of <=: an entry whose efficiency
\* equals the UE's is passed over.
ScanMcs_strict(i, cur, ue_cqi_eff) ==
    IF i \notin DOMAIN RAN_MCS_SPECTRAL_EFFICIENCY_TABLE THEN cur
    ELSE IF RAN_MCS_SPECTRAL_EFFICIENCY_TABLE[i].spectral_efficiency < ue_cqi_eff
         THEN ScanMcs_strict(i + 1, i, ue_cqi_eff)
         ELSE cur

RECURSIVE ScanMcs(_, _, _)
\* The scan of the MCS table from index i on, with max_mcs_index = cur so far:
\* it stops at the first entry whose efficiency exceeds ue_cqi_eff.
ScanMcs(i, cur, ue_cqi_eff) ==
    IF i \notin DOMAIN RAN_MCS_SPECTRAL_EFFICIENCY_TABLE THEN cur
    ELSE IF RAN_MCS_SPECTRAL_EFFICIENCY_TABLE[i].spectral_efficiency <= ue_cqi_eff
         THEN ScanMcs(i + 1, i, ue_cqi_eff)
         ELSE cur

\* Cell.select_ue_mcs for one UE with the given CQI: its new MCS index and data.
select_ue_mcs_one(cqi) ==
    IF cqi = 0 \/ cqi \notin DOMAIN UE_CQI_MCS_SPECTRAL_EFFICIENCY_TABLE
    THEN [index |-> -1, data |-> None]
    ELSE LET ue_cqi_eff == UE_CQI_MCS_SPECTRAL_EFFICIENCY_TABLE[cqi].spectral_efficiency
             max_mcs_index == ScanMcs(0, 0, ue_cqi_eff)
         IN [ index |-> max_mcs_index,
              data |-> IF max_mcs_index \in DOMAIN RAN_MCS_SPECTRAL_EFFICIENCY_TABLE
                       THEN Some(RAN_MCS_SPECTRAL_EFFICIENCY_TABLE[max_mcs_index])
                       ELSE None ]

\* Cell.select_ue_mcs: every connected UE's selection is reset and recomputed;
\* a UE that is not connected keeps its fields.
select_ue_mcs_index(connected, cqi, index) ==
    [u \in UEs |-> IF u \in connected THEN select_ue_mcs_one(cqi[u]).index ELSE index[u]]

\* A selection that does not reset the MCS data of a UE with an unusable CQI.
select_ue_mcs_data_no_reset(connected, cqi, data) ==
    [u \in UEs |->
        IF u \in connected /\ select_ue_mcs_one(cqi[u]).data # None
        THEN select_ue_mcs_one(cqi[u]).data ELSE data[u]]

select_ue_mcs_data(connected, cqi, data) ==
    [u \in UEs |-> IF u \in connected THEN select_ue_mcs_one(cqi[u]).data ELSE data[u]]

\* ---------------------------------------------------------- PRB allocation

\* A reset that writes 1 instead of 0 into the downlink entry.
ResetPRBs_one(connected, allocation) ==
    [u \in DOMAIN allocation |->
        IF u \in connected THEN [downlink |-> 1, uplink |-> 0] ELSE allocation[u]]

\* A pass that does not reset the allocation map.
ResetPRBs_keep(connected, allocation) == allocation

\* allocate_prb, "Reset PRBs": both entries of every connected UE become 0.
ResetPRBs(connected, allocation) ==
    [u \in DOMAIN allocation |-> IF u \in connected THEN ZeroAllocation ELSE allocation[u]]

\* Step 1 for one UE: want = int(max(0, ceil(GBR / throughput per PRB))).
dl_tput_per_prb(data) ==
    estimate_throughput(data[1].modulation_order, data[1].target_code_rate, 1)

\* (every entry of the MCS table has a throughput per PRB of at least 1, so
\* max(dl_tput_per_prb, 1e-9) is dl_tput_per_prb)
want_of(gbr, data) == Max(0, CeilDiv(gbr, dl_tput_per_prb(data)))

\* A Step 1 that does not skip a UE without MCS data: it records a want of 0.
ue_prb_requirements_no_skip(connected, mcs_data, gbr, slice) ==
    [u \in connected |->
        IF mcs_data[u] = None
        THEN [slice |-> slice[u], want |-> 0, tput_per_prb |-> 0]
        ELSE [ slice |-> slice[u],
               want |-> want_of(gbr[u], mcs_data[u]),
               tput_per_prb |-> dl_tput_per_prb(mcs_data[u]) ]]

\* Step 1: ue_prb_requirements, one entry per connected UE with MCS data.
ue_prb_requirements(connected, mcs_data, gbr, slice) ==
    [u \in {x \in connected : mcs_data[x] # None} |->
        [ slice |-> slice[u],
          want |-> want_of(gbr[u], mcs_data[u]),
          tput_per_prb |-> dl_tput_per_prb(mcs_data[u]) ]]

\* Step 2: the weights in use: the mapping, or {eMBB: 1.0} when it is empty.
WeightsInUse(weights) ==
    IF DOMAIN weights = {} THEN [s \in {"eMBB"} |-> 1] ELSE weights

\* Step 2: ws = sum(max(0, v) for v in weights.values()) or 1.0
WeightSum(w) ==
    LET total == SumOver([s \in DOMAIN w |-> Max(0, w[s])], DOMAIN w)
    IN IF total = 0 THEN 1 ELSE total

\* The rankings that floating point can produce for the weights: slices
\* with equal (clamped) weights have equal float remainders, which the sort
\* then orders by the slice name.
TieOrdersFor(weights) ==
    LET w == WeightsInUse(weights)
    IN {t \in TieOrders :
           \A a, b \in DOMAIN w :
               Max(0, w[a]) = Max(0, w[b]) => (t[a] > t[b] <=> SliceRank(a) > SliceRank(b))}

\* Step 2: slice_budget by floor plus largest remainders. raw[s] is the
\* rational budget * max(0, w[s]) / ws: base[s] is its floor, and its
\* fractional part is compared by the numerator rem[s]. rems is sorted in
\* reverse on (remainder, slice name), remainders that are equal as
\* rationals being ordered by ties; the first leftover slices of that order
\* get one more PRB each.
SliceBudgets(budget, weights, ties) ==
    LET w == WeightsInUse(weights)
        ws == WeightSum(w)
        num == [s \in DOMAIN w |-> budget * Max(0, w[s])]
        base == [s \in DOMAIN w |-> num[s] \div ws]
        rem == [s \in DOMAIN w |-> num[s] % ws]
        leftover == budget - SumOver(base, DOMAIN w)
        Before(a, b) == \/ rem[a] > rem[b]
                        \/ rem[a] = rem[b] /\ ties[a] > ties[b]
        position == [s \in DOMAIN w |-> Cardinality({a \in DOMAIN w : Before(a, s)})]
    IN [s \in DOMAIN w |-> IF position[s] < leftover THEN base[s] + 1 ELSE base[s]]

\* A desired demand that forgets the cap.
Desired_uncapped(want, cap) == want

\* desired = min(want, int(cap)) if cap is not None else want
Desired(want, cap) == IF cap # None THEN Min(want, cap[1]) ELSE want

RECURSIVE SortedReverse_ascending(_, _)
\* A sort that forgets reverse=True: the smallest remainder first.
SortedReverse_ascending(S, rem) ==
    IF S = {} THEN << >>
    ELSE LET first == CHOOSE x \in S : \A y \in S \ {x} :
                          \/ rem[x] < rem[y]
                          \/ rem[x] = rem[y] /\ x < y
         IN << first >> \o SortedReverse_ascending(S \ {first}, rem)

RECURSIVE SortedReverse(_, _)
\* sorted(reverse=True) of the tuples (remainder, imsi, ...) of the UEs in S:
\* the largest remainder first, equal remainders by the larger imsi first.
SortedReverse(S, rem) ==
    IF S = {} THEN << >>
    ELSE LET first == CHOOSE x \in S : \A y \in S \ {x} :
                          \/ rem[x] > rem[y]
                          \/ rem[x] = rem[y] /\ x > y
         IN << first >> \o SortedReverse(S \ {first}, rem)

\* A remainder loop without the test "if L <= 0: break": every UE below its
\* limit gets one more PRB.
GiveRemainders_no_stop(order, L, granted, limit) ==
    [u \in DOMAIN granted |-> IF granted[u] < limit[u] THEN granted[u] + 1 ELSE granted[u]]

RECURSIVE GiveRemainders(_, _, _, _)
\* The remainder loop: in the sorted order, a UE still below its limit gets
\* one more PRB, until L PRBs are handed out or the list ends.
GiveRemainders(order, L, granted, limit) ==
    IF order = << >> \/ L <= 0 THEN granted
    ELSE LET u == Head(order)
         IN IF granted[u] < limit[u]
            THEN GiveRemainders(Tail(order), L - 1, [granted EXCEPT ![u] = @ + 1], limit)
            ELSE GiveRemainders(Tail(order), L, granted, limit)

RECURSIVE FirstServed(_, _, _, _)
\* The UEs served one after the other, each up to its limit, while PRBs last.
FirstServed(order, B, granted, limit) ==
    IF order = << >> THEN granted
    ELSE LET u == Head(order)
             g == Min(limit[u], Max(0, B))
         IN FirstServed(Tail(order), B - g, [granted EXCEPT ![u] = g], limit)

\* A share that is not proportional: the UE with the largest limit is served
\* first, in full.
ProportionalShare_first_served(S, limit, B) ==
    FirstServed(SortedReverse(S, limit), B, [u \in S |-> 0], limit)

\* Proportional floor + remainders: B PRBs shared among the UEs of S in
\* proportion to limit[u] (total = sum of the limits > 0), no UE above its
\* limit. share_f is the rational B * limit[u] / total.
ProportionalShare(S, limit, B) ==
    LET total == SumOver(limit, S)
        b == [u \in S |-> (B * limit[u]) \div total]
        rem == [u \in S |-> (B * limit[u]) % total]
        base_alloc == [u \in S |-> Min(b[u], limit[u])]
        used == SumOver(base_alloc, S)
        L == Max(0, B - used)
    IN GiveRemainders(SortedReverse(S, rem), L, base_alloc, limit)

\* Step 3 for one slice s that has UEs with demand: what each of its UEs is
\* granted and what the slice adds to global_leftover.
Stage3Slice(s, reqs, slice_budget, cap) ==
    LET imsis == {u \in DOMAIN reqs : reqs[u].slice = s}
        B == IF s \in DOMAIN slice_budget THEN slice_budget[s] ELSE 0
        desired == [u \in imsis |-> Desired(reqs[u].want, cap)]
        total_desired == SumOver(desired, imsis)
    IN IF B <= 0 THEN [alloc |-> [u \in imsis |-> 0], leftover |-> 0]
       ELSE IF total_desired = 0 THEN [alloc |-> [u \in imsis |-> 0], leftover |-> B]
       ELSE IF total_desired <= B THEN [alloc |-> desired, leftover |-> B - total_desired]
       ELSE [alloc |-> ProportionalShare(imsis, desired, B), leftover |-> 0]

\* Step 3: alloc after the per-slice loop.
Stage3Alloc(reqs, slice_budget, cap) ==
    [u \in DOMAIN reqs |-> Stage3Slice(reqs[u].slice, reqs, slice_budget, cap).alloc[u]]

\* A global leftover that also collects the budget of every configured
\* slice that has no UE with demand.
GlobalLeftover_all_slices(reqs, slice_budget, cap) ==
    LET present == {reqs[u].slice : u \in DOMAIN reqs}
        absent == (DOMAIN slice_budget) \ present
    IN SumOver([s \in present |-> Stage3Slice(s, reqs, slice_budget, cap).leftover], present)
       + SumOver(slice_budget, absent)

\* Step 3: global_leftover after the per-slice loop.
GlobalLeftover(reqs, slice_budget, cap) ==
    LET present == {reqs[u].slice : u \in DOMAIN reqs}
    IN SumOver([s \in present |-> Stage3Slice(s, reqs, slice_budget, cap).leftover], present)

\* Step 4: what the leftover redistribution adds to each UE.
Stage4Add(reqs, alloc, global_leftover, cap) ==
    LET room == [u \in DOMAIN reqs |-> Max(0, Desired(reqs[u].want, cap) - alloc[u])]
        total_room == SumOver(room, DOMAIN reqs)
    IN IF global_leftover > 0 /\ total_room > 0
       THEN ProportionalShare(DOMAIN reqs, room, global_leftover)
       ELSE [u \in DOMAIN reqs |-> 0]

\* Steps 2 to 4: the alloc map that Commit writes.
FinalAlloc(reqs, budget, weights, cap, ties) ==
    LET slice_budget == SliceBudgets(budget, weights, ties)
        alloc == Stage3Alloc(reqs, slice_budget, cap)
        add == Stage4Add(reqs, alloc, GlobalLeftover(reqs, slice_budget, cap), cap)
    IN [u \in DOMAIN reqs |-> alloc[u] + add[u]]

\* Commit: the downlink entry of every UE of alloc is overwritten.
Commit(allocation, alloc) ==
    [u \in DOMAIN allocation |->
        IF u \in DOMAIN alloc THEN [allocation[u] EXCEPT !.downlink = alloc[u]]
        ELSE allocation[u]]

\* Cell.allocate_prb as a whole: the outcomes it can have, each one the
\* allocation map and the two observability maps it leaves and the exception
\* it ends with. With no demanding UE it assigns the property
\* allocated_dl_prb (line 301); otherwise it reaches collections.defaultdict
\* (line 313), and past it the sort of the float remainders, the Commit and
\* a second assignment of the property (line 423).
allocate_prb_results(connected, allocation, mcs_data, gbr, slice, budget, weights, cap) ==
    LET reset == ResetPRBs(connected, allocation)
        reqs == ue_prb_requirements(connected, mcs_data, gbr, slice)
        demand == [u \in DOMAIN reqs |-> reqs[u].want]
        tput == [u \in DOMAIN reqs |-> reqs[u].tput_per_prb]
        setter == IF allocated_dl_prb_has_setter THEN "none" ELSE "AttributeError"
    IN IF DOMAIN reqs = {}
       THEN {[allocation |-> reset, demand |-> demand, tput |-> tput, raised |-> setter]}
       ELSE IF ~collections_is_imported
       THEN {[allocation |-> reset, demand |-> demand, tput |-> tput, raised |-> "NameError"]}
       ELSE {[ allocation |-> Commit(reset, FinalAlloc(reqs, budget, weights, cap, ties)),
               demand |-> demand, tput |-> tput, raised |-> setter ] :
                 ties \in TieOrdersFor(weights)}

\* ------------------------------------------------------ bitrate estimation

\* Cell.estimate_ue_bitrate_and_latency: the bitrate of every connected UE
\* with MCS data is recomputed from its allocation; the others keep theirs.
estimate_ue_bitrate(connected, allocation, mcs_data, bitrate) ==
    [u \in UEs |->
        IF u \in connected /\ mcs_data[u] # None
        THEN estimate_throughput(mcs_data[u][1].modulation_order,
                                 mcs_data[u][1].target_code_rate,
                                 allocation[u].downlink)
        ELSE bitrate[u]]

\* The tick lengths step is called with.
DeltaTimes == {1, 2}

\* A latency is a fraction num / den of a second.
Latency(num, den) == [num |-> num, den |-> den]

\* Lines 449-452: the buffer of every connected UE with MCS data and a
\* buffer is drained by min(bytes_can_send, dl_buffer_bytes).
estimate_ue_buffer(connected, allocation, mcs_data, buffer, delta_time) ==
    [u \in UEs |->
        IF u \in connected /\ mcs_data[u] # None /\ buffer[u] # None
        THEN LET dl_bitrate == estimate_throughput(mcs_data[u][1].modulation_order,
                                                   mcs_data[u][1].target_code_rate,
                                                   allocation[u].downlink)
                 bytes_can_send == dl_bitrate * delta_time
                 transmitted == Min(bytes_can_send, buffer[u][1])
             IN Some(buffer[u][1] - transmitted)
        ELSE buffer[u]]

\* A latency estimation that does not skip a UE without MCS data: it takes
\* its bitrate as 0 and writes latency 0.
estimate_ue_latency_no_skip(connected, allocation, mcs_data, buffer, latency, delta_time) ==
    [u \in UEs |->
        IF u \in connected /\ buffer[u] # None
        THEN IF mcs_data[u] = None THEN Some(Latency(0, 1))
             ELSE LET dl_bitrate == estimate_throughput(mcs_data[u][1].modulation_order,
                                                        mcs_data[u][1].target_code_rate,
                                                        allocation[u].downlink)
                      remaining == estimate_ue_buffer(connected, allocation, mcs_data,
                                                      buffer, delta_time)[u][1]
                  IN IF dl_bitrate > 0 THEN Some(Latency(remaining, dl_bitrate))
                     ELSE Some(Latency(0, 1))
        ELSE latency[u]]

\* Line 455: the latency of the same UEs is the drained buffer divided by
\* dl_bitrate / 8.0 when dl_bitrate > 0, else 0.0.
estimate_ue_latency(connected, allocation, mcs_data, buffer, latency, delta_time) ==
    [u \in UEs |->
        IF u \in connected /\ mcs_data[u] # None /\ buffer[u] # None
        THEN LET dl_bitrate == estimate_throughput(mcs_data[u][1].modulation_order,
                                                   mcs_data[u][1].target_code_rate,
                                                   allocation[u].downlink)
                 remaining == estimate_ue_buffer(connected, allocation, mcs_data,
                                                 buffer, delta_time)[u][1]
             IN IF dl_bitrate > 0 THEN Some(Latency(remaining, dl_bitrate))
                ELSE Some(Latency(0, 1))
        ELSE latency[u]]

\* ----------------------------------------------------------------- actions

\* Cell.register_ue(ue)
register_ue(u) ==
    LET r == register_ue_result(connected_ue_list, prb_ue_allocation_dict, u)
    IN /\ connected_ue_list' = r.connected
       /\ prb_ue_allocation_dict' = r.allocation
       /\ raised' = r.raised
       /\ last_op' = "other"
       /\ UNCHANGED << max_dl_prb, ue_uplink_signal_strength_dict, dl_total_prb_demand,
                       dl_throughput_per_prb_map, prb_per_ue_cap, slice_weights, ue_vars, pass_vars,
                    logger_vars >>

\* Cell.deregister_ue(ue)
deregister_ue(u) ==
    LET r == deregister_ue_result(connected_ue_list, prb_ue_allocation_dict, u)
    IN /\ connected_ue_list' = r.connected
       /\ prb_ue_allocation_dict' = r.allocation
       /\ raised' = r.raised
       /\ last_op' = "other"
       /\ UNCHANGED << max_dl_prb, ue_uplink_signal_strength_dict, dl_total_prb_demand,
                       dl_throughput_per_prb_map, prb_per_ue_cap, slice_weights, ue_vars, pass_vars,
                    logger_vars >>

\* Cell.step(delta_time): the four passes in order; an exception of
\* allocate_prb leaves step before the bitrate estimation. The input reported
\* is the channel quality each connected UE reports for this tick.
step(reported, delta_time) ==
    LET cqi == [u \in UEs |-> IF u \in connected_ue_list THEN reported[u]
                              ELSE downlink_cqi[u]]
        index == select_ue_mcs_index(connected_ue_list, cqi, downlink_mcs_index)
        data == select_ue_mcs_data(connected_ue_list, cqi, downlink_mcs_data)
    IN \E r \in allocate_prb_results(connected_ue_list, prb_ue_allocation_dict, data,
                                     GBR_DL, slice_type, max_dl_prb, slice_weights,
                                     prb_per_ue_cap) :
       /\ downlink_cqi' = cqi
       /\ ue_uplink_signal_strength_dict' = monitor_ue_signal_strength_result(connected_ue_list)
       /\ downlink_mcs_index' = index
       /\ downlink_mcs_data' = data
       /\ prb_ue_allocation_dict' = r.allocation
       /\ dl_total_prb_demand' = r.demand
       /\ dl_throughput_per_prb_map' = r.tput
       /\ raised' = r.raised
       /\ downlink_bitrate' =
             IF r.raised = "none"
             THEN estimate_ue_bitrate(connected_ue_list, r.allocation, data, downlink_bitrate)
             ELSE downlink_bitrate
       /\ dl_buffer_bytes' =
             IF r.raised = "none"
             THEN estimate_ue_buffer(connected_ue_list, r.allocation, data,
                                     dl_buffer_bytes, delta_time)
             ELSE dl_buffer_bytes
       /\ downlink_latency' =
             IF r.raised = "none"
             THEN estimate_ue_latency(connected_ue_list, r.allocation, data,
                                      dl_buffer_bytes, downlink_latency, delta_time)
             ELSE downlink_latency
       /\ last_op' = "step"
       /\ UNCHANGED << max_dl_prb, connected_ue_list, prb_per_ue_cap, slice_weights,
                       GBR_DL, slice_type, pass_vars,
                    logger_vars >>

\* The dashboard's _set_cap: the controller writes the cap between ticks.
set_cap(c) ==
    /\ prb_per_ue_cap' = c
    /\ raised' = "none"
    /\ last_op' = "other"
    /\ UNCHANGED << max_dl_prb, connected_ue_list, prb_ue_allocation_dict,
                    ue_uplink_signal_strength_dict, dl_total_prb_demand,
                    dl_throughput_per_prb_map, slice_weights, ue_vars, pass_vars,
                    logger_vars >>

\* The dashboard's _set_slice_weights: the controller writes the weights.
set_slice_weights(w) ==
    /\ slice_weights' = w
    /\ raised' = "none"
    /\ last_op' = "other"
    /\ UNCHANGED << max_dl_prb, connected_ue_list, prb_ue_allocation_dict,
                    ue_uplink_signal_strength_dict, dl_total_prb_demand,
                    dl_throughput_per_prb_map, prb_per_ue_cap, ue_vars, pass_vars,
                    logger_vars >>

Next ==
    \/ \E u \in UEs : register_ue(u)
    \/ \E u \in UEs : deregister_ue(u)
    \/ \E reported \in [connected_ue_list -> CqiValues], delta_time \in DeltaTimes :
          step(reported, delta_time)
    \/ \E c \in CapValues : set_cap(c)
    \/ \E w \in WeightChoices : set_slice_weights(w)

Spec == Init /\ [][Next]_vars

\* ------------------------------------------------------------ derived views

\* The property Cell.allocated_dl_prb: the downlink entries summed over the
\* connected UEs.
allocated_dl_prb ==
    SumOver([u \in connected_ue_list |-> prb_ue_allocation_dict[u].downlink],
            connected_ue_list)

\* ue_prb_requirements of the pass that a step has just run: step changes
\* neither the connected set nor GBR or slice, and leaves the MCS data it
\* selected.
PassReqs == ue_prb_requirements(connected_ue_list, downlink_mcs_data, GBR_DL, slice_type)

\* The alloc map Steps 2 to 4 compute from the requirements of that pass.
PassAlloc(ties) == FinalAlloc(PassReqs, max_dl_prb, slice_weights, prb_per_ue_cap, ties)

\* The rankings floating point can produce for the weights of that pass.
PassTies == TieOrdersFor(slice_weights)

\* The sum of the wants of that pass.
PassTotalWant == SumOver([u \in DOMAIN PassReqs |-> PassReqs[u].want], DOMAIN PassReqs)

\* ------------------------------------------------------------------ claims

\* C1. No over-allocation: after every allocate_prb pass the downlink
\* allocations of the connected UEs sum to at most max_dl_prb, in the
\* allocation map the pass leaves and in the alloc map Steps 2 to 4 compute
\* for Commit, for every weight mapping, cap and demand vector.
C1_NoOverAllocation ==
    last_op = "step" =>
        /\ allocated_dl_prb <= max_dl_prb
        /\ \A ties \in PassTies : SumOver(PassAlloc(ties), DOMAIN PassReqs) <= max_dl_prb

\* A pass has run in which the wants exceed the budget under all-zero weights.
C1_Witness ==
    /\ last_op = "step"
    /\ PassTotalWant > max_dl_prb
    /\ max_dl_prb > 0
    /\ slice_weights = [s \in Slices |-> 0]

\* C2. Cap respect: when a cap c is configured as allocate_prb runs, no UE
\* holds more than c after the pass, neither in the allocation map the pass
\* leaves nor in what Step 3 grants nor in what Step 4 adds to it.
C2_CapRespect ==
    (last_op = "step" /\ prb_per_ue_cap # None) =>
        /\ \A u \in connected_ue_list : prb_ue_allocation_dict[u].downlink <= prb_per_ue_cap[1]
        /\ \A u \in DOMAIN PassReqs, ties \in PassTies :
              /\ Stage3Alloc(PassReqs, SliceBudgets(max_dl_prb, slice_weights, ties),
                             prb_per_ue_cap)[u] <= prb_per_ue_cap[1]
              /\ PassAlloc(ties)[u] <= prb_per_ue_cap[1]

\* A pass has run with cap 1, a UE that wants more than the cap, and a slice
\* that hands leftover PRBs to Step 4.
C2_Witness ==
    /\ last_op = "step"
    /\ prb_per_ue_cap = Some(1)
    /\ \E u \in DOMAIN PassReqs : PassReqs[u].want > 1
    /\ GlobalLeftover(PassReqs, SliceBudgets(max_dl_prb, slice_weights, NameOrder),
                      prb_per_ue_cap) > 0

\* The Stage-2 budget of slice s in the pass just run (0 for a slice the
\* weights do not name) and the demand of its UEs.
PassBudget(s, ties) ==
    LET sb == SliceBudgets(max_dl_prb, slice_weights, ties)
    IN IF s \in DOMAIN sb THEN sb[s] ELSE 0

PassSliceDemand(s) ==
    LET imsis == {u \in DOMAIN PassReqs : PassReqs[u].slice = s}
    IN SumOver([u \in imsis |-> PassReqs[u].want], imsis)

\* C3. Budget conservation: with no cap and a UE with positive want, the pass
\* leaves sum(downlink) = min(max_dl_prb, sum of wants), unless some slice's
\* demand exceeds its budget while another configured slice's demand is
\* below its budget.
C3_BudgetConservation ==
    ( /\ last_op = "step"
      /\ prb_per_ue_cap = None
      /\ \E u \in DOMAIN PassReqs : PassReqs[u].want > 0
      /\ \E ties \in PassTies :
            ~ \E s \in Slices, t \in DOMAIN WeightsInUse(slice_weights) :
                /\ t # s
                /\ PassSliceDemand(s) > PassBudget(s, ties)
                /\ PassSliceDemand(t) < PassBudget(t, ties) )
    => allocated_dl_prb = Min(max_dl_prb, PassTotalWant)

\* C4. Work conservation: the pass leaves sum(downlink) = max_dl_prb whenever
\* the desired demands (want, limited by the cap) sum to at least max_dl_prb.
C4_WorkConservation ==
    ( /\ last_op = "step"
      /\ SumOver([u \in DOMAIN PassReqs |-> Desired(PassReqs[u].want, prb_per_ue_cap)],
                 DOMAIN PassReqs) >= max_dl_prb )
    => allocated_dl_prb = max_dl_prb

\* C5. After any sequence of register_ue, deregister_ue and step the
\* allocation map and the connected-UE map have the same keys, and a UE
\* just registered is connected with allocation downlink 0 / uplink 0.
C5_KeySets ==
    /\ [](DOMAIN prb_ue_allocation_dict = connected_ue_list)
    /\ [][\A u \in UEs : register_ue(u) =>
             /\ u \in connected_ue_list'
             /\ u \in DOMAIN prb_ue_allocation_dict'
             /\ prb_ue_allocation_dict'[u] = ZeroAllocation]_vars

\* Some UE is connected and another one is not, after a tick took place and
\* the connected set changed.
C5_Witness ==
    /\ last_op = "other"
    /\ connected_ue_list # {}
    /\ connected_ue_list # UEs
    /\ ue_uplink_signal_strength_dict # connected_ue_list
    /\ DOMAIN prb_ue_allocation_dict = connected_ue_list

\* C6. Idempotent deregistration: in every cell state and for every UE,
\* deregister_ue called twice leaves the maps that one call leaves, no call
\* raises, and deregistering a UE that is not present changes neither map.
C6_IdempotentDeregistration ==
    \A u \in UEs :
        LET once == deregister_ue_result(connected_ue_list, prb_ue_allocation_dict, u)
            twice == deregister_ue_result(once.connected, once.allocation, u)
        IN /\ once.raised = "none" /\ twice.raised = "none"
           /\ twice.connected = once.connected
           /\ twice.allocation = once.allocation
           /\ u \notin once.connected /\ u \notin DOMAIN once.allocation
           /\ (u \notin connected_ue_list /\ u \notin DOMAIN prb_ue_allocation_dict) =>
                 /\ once.connected = connected_ue_list
                 /\ once.allocation = prb_ue_allocation_dict

\* A UE that was attached during a tick has been deregistered while another
\* one stays connected.
C6_Witness ==
    /\ last_op = "other"
    /\ \E u \in UEs, v \in UEs :
          /\ u \in connected_ue_list
          /\ v \notin connected_ue_list
          /\ v \in ue_uplink_signal_strength_dict

\* GBR values a UE's demand is raised to in the second run of C7.
RaisedGbrValues == {3, 5, 8}

\* C7. Monotonicity: a second allocate_prb run that differs from the pass
\* just run only in a larger GBR (hence want) of one UE gives that UE no
\* less than the first run, in the allocation map the run leaves and in the
\* alloc map Steps 2 to 4 compute.
C7_Monotonicity ==
    last_op = "step" =>
        /\ \A u \in DOMAIN PassReqs : \A g \in RaisedGbrValues :
              g > GBR_DL[u] =>
                  LET gbr2 == [GBR_DL EXCEPT ![u] = g]
                      reqs2 == ue_prb_requirements(connected_ue_list, downlink_mcs_data,
                                                   gbr2, slice_type)
                      second == allocate_prb_results(connected_ue_list, prb_ue_allocation_dict,
                                                     downlink_mcs_data, gbr2, slice_type,
                                                     max_dl_prb, slice_weights, prb_per_ue_cap)
                  IN /\ reqs2[u].want >= PassReqs[u].want
                     /\ \A r \in second :
                           r.allocation[u].downlink >= prb_ue_allocation_dict[u].downlink
        /\ \A ties \in PassTies :
              LET first == PassAlloc(ties)
              IN \A u \in DOMAIN PassReqs : \A g \in RaisedGbrValues :
                    g > GBR_DL[u] =>
                        LET reqs2 == ue_prb_requirements(connected_ue_list, downlink_mcs_data,
                                                         [GBR_DL EXCEPT ![u] = g], slice_type)
                        IN FinalAlloc(reqs2, max_dl_prb, slice_weights, prb_per_ue_cap,
                                      ties)[u] >= first[u]

\* A pass has run in which two UEs share an oversubscribed slice and one of
\* them, granted a PRB by Steps 2 to 4, can still raise its demand.
C7_Witness ==
    /\ last_op = "step"
    /\ \E u \in DOMAIN PassReqs, v \in DOMAIN PassReqs :
          /\ u # v
          /\ PassReqs[u].slice = PassReqs[v].slice
          /\ PassReqs[u].want + PassReqs[v].want > PassBudget(PassReqs[u].slice, NameOrder)
          /\ PassAlloc(NameOrder)[u] > 0
          /\ GBR_DL[u] < 8

\* C8. Missing-data early exit: when no connected UE has a resolved MCS (or
\* no UE is connected), the pass and step end without raising and every
\* connected UE holds downlink 0 and uplink 0.
C8_EarlyExit ==
    (last_op = "step" /\ DOMAIN PassReqs = {}) =>
        /\ raised = "none"
        /\ \A u \in connected_ue_list : prb_ue_allocation_dict[u] = ZeroAllocation

\* C9. Commit: when a UE has Stage-1 demand, the pass runs Steps 2 to 4 to
\* the end, the allocation map holds every demanding UE's final alloc, and
\* allocated_dl_prb is the sum of the downlink entries.
C9_Commit ==
    (last_op = "step" /\ DOMAIN PassReqs # {}) =>
        /\ raised = "none"
        /\ \E ties \in PassTies :
              /\ \A u \in DOMAIN PassReqs : prb_ue_allocation_dict[u].downlink = PassAlloc(ties)[u]
              /\ allocated_dl_prb = SumOver(PassAlloc(ties), DOMAIN PassReqs)

\* The CQI is the unusable sentinel 0 or has no entry in the CQI table.
UnusableCqi(c) == c = 0 \/ c \notin DOMAIN UE_CQI_MCS_SPECTRAL_EFFICIENCY_TABLE

\* C10. Scenario D: after step, a connected UE whose CQI is 0 or has no table
\* entry has MCS index -1 and no MCS data, whatever it held before, has no
\* entry in the demand map of the tick, and holds downlink 0.
C10_UnusableChannel ==
    last_op = "step" =>
        \A u \in connected_ue_list :
            UnusableCqi(downlink_cqi[u]) =>
                /\ downlink_mcs_index[u] = -1
                /\ downlink_mcs_data[u] = None
                /\ u \notin DOMAIN dl_total_prb_demand
                /\ u \notin DOMAIN dl_throughput_per_prb_map
                /\ prb_ue_allocation_dict[u].downlink = 0

\* A tick in which one UE has a CQI without a table entry, another one the
\* sentinel 0, and both are connected.
C10_Witness ==
    /\ last_op = "step"
    /\ \E u \in connected_ue_list, v \in connected_ue_list :
          /\ downlink_cqi[u] = 0
          /\ downlink_cqi[v] # 0
          /\ downlink_cqi[v] \notin DOMAIN UE_CQI_MCS_SPECTRAL_EFFICIENCY_TABLE

\* The MCS entries a UE with the given usable CQI can decode: those whose
\* spectral efficiency does not exceed the CQI-derived one.
QualifyingMcs(c) ==
    {i \in DOMAIN RAN_MCS_SPECTRAL_EFFICIENCY_TABLE :
        RAN_MCS_SPECTRAL_EFFICIENCY_TABLE[i].spectral_efficiency
            <= UE_CQI_MCS_SPECTRAL_EFFICIENCY_TABLE[c].spectral_efficiency}

\* C11. No qualifying entry: after step, a connected UE with a usable CQI
\* whose spectral efficiency is below that of every MCS entry has MCS index
\* -1 and no MCS data, has no demand entry and holds downlink 0.
C11_NoQualifyingEntry ==
    last_op = "step" =>
        \A u \in connected_ue_list :
            (~UnusableCqi(downlink_cqi[u]) /\ QualifyingMcs(downlink_cqi[u]) = {}) =>
                /\ downlink_mcs_index[u] = -1
                /\ downlink_mcs_data[u] = None
                /\ u \notin DOMAIN dl_total_prb_demand
                /\ prb_ue_allocation_dict[u].downlink = 0

\* C12. Best entry: after step, a connected UE with a usable CQI that some
\* MCS entry qualifies for has as MCS index the highest qualifying index of
\* the table (ordered by non-decreasing efficiency) and as MCS data a copy of
\* that entry.
C12_BestEntry ==
    last_op = "step" =>
        \A u \in connected_ue_list :
            (~UnusableCqi(downlink_cqi[u]) /\ QualifyingMcs(downlink_cqi[u]) # {}) =>
                LET best == CHOOSE i \in QualifyingMcs(downlink_cqi[u]) :
                                \A j \in QualifyingMcs(downlink_cqi[u]) : j <= i
                IN /\ downlink_mcs_index[u] = best
                   /\ downlink_mcs_data[u] = Some(RAN_MCS_SPECTRAL_EFFICIENCY_TABLE[best])

\* A tick in which one UE qualifies for every MCS entry, its efficiency
\* being equal to the last entry's, and another one only for the first.
C12_Witness ==
    /\ last_op = "step"
    /\ \E u \in connected_ue_list, v \in connected_ue_list :
          /\ ~UnusableCqi(downlink_cqi[u]) /\ ~UnusableCqi(downlink_cqi[v])
          /\ QualifyingMcs(downlink_cqi[u]) = DOMAIN RAN_MCS_SPECTRAL_EFFICIENCY_TABLE
          /\ QualifyingMcs(downlink_cqi[v]) = {0}
          /\ downlink_mcs_index[u] = 1
          /\ downlink_mcs_index[v] = 0

\* ------------------------------------------------------------ load readings

\* Python's true division a / b of two integers: ZeroDivisionError when b is
\* 0, else the quotient, kept as the pair << a, b >>.
TrueDiv(a, b) ==
    IF b = 0 THEN [raised |-> "ZeroDivisionError", value |-> None]
    ELSE [raised |-> "none", value |-> Some(<< a, b >>)]

\* The property Cell.allocated_ul_prb.
allocated_ul_prb ==
    SumOver([u \in connected_ue_list |-> prb_ue_allocation_dict[u].uplink],
            connected_ue_list)

\* The property Cell.allocated_prb.
allocated_prb ==
    SumOver([u \in connected_ue_list |->
                prb_ue_allocation_dict[u].uplink + prb_ue_allocation_dict[u].downlink],
            connected_ue_list)

\* The property Cell.current_dl_load.
current_dl_load == TrueDiv(allocated_dl_prb, max_dl_prb)

\* The properties Cell.current_ul_load and Cell.current_load of a cell built
\* with the given max_ul_prb and max_prb (two fields no operation writes).
current_ul_load(max_ul_prb) == TrueDiv(allocated_ul_prb, max_ul_prb)

current_load(max_prb) == TrueDiv(allocated_prb, max_prb)

\* Cell.to_json: the dict literal evaluates current_dl_load, current_ul_load
\* and current_load in that order; the first fault leaves to_json.
to_json(max_prb, max_ul_prb) ==
    LET dl == TrueDiv(allocated_dl_prb, max_dl_prb)
        ul == TrueDiv(allocated_ul_prb, max_ul_prb)
        all == current_load(max_prb)
    IN IF dl.raised # "none" THEN [raised |-> dl.raised, value |-> None]
       ELSE IF ul.raised # "none" THEN [raised |-> ul.raised, value |-> None]
       ELSE IF all.raised # "none" THEN [raised |-> all.raised, value |-> None]
       ELSE [ raised |-> "none",
              value |-> Some([ current_dl_load |-> dl.value,
                               current_ul_load |-> ul.value,
                               current_load |-> all.value ]) ]

\* Values of max_ul_prb and max_prb a cell is built with.
MaxPrbValues == 0 .. MaxDlPrb

\* C13. Division-by-zero guards on load: in a cell whose max_dl_prb,
\* max_ul_prb or max_prb is 0, reading current_dl_load, current_ul_load,
\* current_load or building to_json raises no fault.
C13_DivisionGuards ==
    \A max_prb \in MaxPrbValues, max_ul_prb \in MaxPrbValues :
        (max_dl_prb = 0 \/ max_ul_prb = 0 \/ max_prb = 0) =>
            /\ current_dl_load.raised = "none"
            /\ current_ul_load(max_ul_prb).raised = "none"
            /\ current_load(max_prb).raised = "none"
            /\ to_json(max_prb, max_ul_prb).raised = "none"

\* Values an external controller may write to the public attribute
\* prb_per_ue_cap: None or any integer, a negative one included.
ControllerCaps == CapValues \cup {Some(-1)}

\* Slice-weight mappings an external controller may write to the public
\* attribute slice_weights, one with a negative weight included.
ControllerWeights ==
    WeightChoices \cup
        { [s \in Slices |-> CASE s = "eMBB" -> 2 [] s = "URLLC" -> -1 [] s = "mMTC" -> 1] }

\* GBR_DL values of a qos_profile, a negative one included.
ControllerGbrValues == GbrValues \cup {-3}

PassDesired == [u \in DOMAIN PassReqs |-> Desired(PassReqs[u].want, prb_per_ue_cap)]

PassSliceUEs(s) == {u \in DOMAIN PassReqs : PassReqs[u].slice = s}

PassSliceDesired(s) == SumOver(PassDesired, PassSliceUEs(s))

\* What Step 3 grants in that pass, the global leftover it ends with and
\* what Step 4 adds.
PassStage3(ties) ==
    Stage3Alloc(PassReqs, SliceBudgets(max_dl_prb, slice_weights, ties), prb_per_ue_cap)

PassLeftover(ties) ==
    GlobalLeftover(PassReqs, SliceBudgets(max_dl_prb, slice_weights, ties), prb_per_ue_cap)

PassStage4(ties) ==
    Stage4Add(PassReqs, PassStage3(ties), PassLeftover(ties), prb_per_ue_cap)

\* The room of each UE after Step 3.
PassRoom(ties) ==
    [u \in DOMAIN PassReqs |-> Max(0, PassDesired[u] - PassStage3(ties)[u])]

\* What Step 3 computes for an oversubscribed slice: exactly its budget in
\* total, no UE above its desired demand.
C15_Stage3 ==
    \A ties \in PassTies, s \in Slices :
        (PassBudget(s, ties) > 0 /\ PassSliceDesired(s) >= PassBudget(s, ties)) =>
            /\ SumOver(PassStage3(ties), PassSliceUEs(s)) = PassBudget(s, ties)
            /\ \A u \in PassSliceUEs(s) : PassStage3(ties)[u] <= PassDesired[u]

\* C15. Oversubscribed slice: a slice with budget B > 0 whose UEs' desired
\* demands sum to at least B is granted exactly B PRBs in Step 3, no UE above
\* its desired demand; and a single UE that wants at least max_dl_prb, under
\* weights {eMBB: 1.0} and no cap, ends the pass holding max_dl_prb PRBs.
C15_OversubscribedSlice ==
    last_op = "step" =>
        /\ C15_Stage3
        /\ \A u \in DOMAIN PassReqs :
              ( /\ DOMAIN PassReqs = {u}
                /\ PassReqs[u].slice = "eMBB"
                /\ PassReqs[u].want >= max_dl_prb
                /\ DOMAIN WeightsInUse(slice_weights) = {"eMBB"}
                /\ prb_per_ue_cap = None )
              => prb_ue_allocation_dict[u].downlink = max_dl_prb

\* What Steps 3 and 4 compute for an undersubscribed slice: every UE gets
\* its desired demand, the rest of the budget joins the global leftover, and
\* Step 4 adds nothing to the UEs of the slice.
C16_Stage3 ==
    \A ties \in PassTies, s \in Slices :
        ( /\ PassBudget(s, ties) > 0
          /\ PassSliceDesired(s) > 0
          /\ PassSliceDesired(s) <= PassBudget(s, ties) ) =>
            /\ \A u \in PassSliceUEs(s) :
                  /\ PassStage3(ties)[u] = PassDesired[u]
                  /\ PassStage4(ties)[u] = 0
            /\ Stage3Slice(s, PassReqs, SliceBudgets(max_dl_prb, slice_weights, ties),
                           prb_per_ue_cap).leftover
                   = PassBudget(s, ties) - PassSliceDesired(s)
            /\ \A u \in DOMAIN PassReqs : PassStage4(ties)[u] <= PassRoom(ties)[u]

\* C16. Undersubscribed slice: a slice with budget B > 0 whose UEs' desired
\* demands sum to a positive value of at most B has every UE granted exactly
\* its desired demand, which it holds after the pass; B minus the total joins
\* the global leftover, of which Step 4 gives nothing to the UEs of the slice.
C16_UndersubscribedSlice ==
    last_op = "step" =>
        /\ C16_Stage3
        /\ \A ties \in PassTies, s \in Slices :
              ( /\ PassBudget(s, ties) > 0
                /\ PassSliceDesired(s) > 0
                /\ PassSliceDesired(s) <= PassBudget(s, ties) ) =>
                  \A u \in PassSliceUEs(s) :
                      prb_ue_allocation_dict[u].downlink = PassDesired[u]

\* What Step 4 computes: no UE gets more than its room, the total handed out
\* is min(global leftover, total room), nothing when there is no room.
C17_Stage4 ==
    \A ties \in PassTies :
        LET total_room == SumOver(PassRoom(ties), DOMAIN PassReqs)
        IN /\ \A u \in DOMAIN PassReqs :
                 /\ PassStage4(ties)[u] >= 0
                 /\ PassStage4(ties)[u] <= PassRoom(ties)[u]
           /\ SumOver(PassStage4(ties), DOMAIN PassReqs)
                  = Min(Max(0, PassLeftover(ties)), total_room)

\* C17. Leftover redistribution: Step 4 gives no UE more than its room and
\* hands out min(global leftover, total room) in total; and a single UE that
\* wants more than a cap c, in a slice whose budget exceeds c, ends the pass
\* holding exactly c while the rest of the budget stays unallocated.
C17_LeftoverRedistribution ==
    last_op = "step" =>
        /\ C17_Stage4
        /\ \A u \in DOMAIN PassReqs, ties \in PassTies :
              ( /\ DOMAIN PassReqs = {u}
                /\ prb_per_ue_cap # None
                /\ prb_per_ue_cap[1] > 0
                /\ PassReqs[u].want > prb_per_ue_cap[1]
                /\ PassBudget(PassReqs[u].slice, ties) > prb_per_ue_cap[1] )
              => /\ prb_ue_allocation_dict[u].downlink = prb_per_ue_cap[1]
                 /\ allocated_dl_prb = prb_per_ue_cap[1]

\* C18. Step ordering: every call of step runs signal estimation, MCS
\* selection, PRB allocation and bitrate estimation, each once and in that
\* order: after step no pass was cut short by a fault, the signal map holds
\* the connected UEs, every connected UE's MCS is the one selected for the CQI
\* of the tick, and the bitrate of every UE with MCS data is the throughput of
\* the tick's allocation under the tick's MCS.
C18_StepOrdering ==
    last_op = "step" =>
        /\ raised = "none"
        /\ ue_uplink_signal_strength_dict = connected_ue_list
        /\ \A u \in connected_ue_list :
              /\ downlink_mcs_index[u] = select_ue_mcs_one(downlink_cqi[u]).index
              /\ downlink_mcs_data[u] = select_ue_mcs_one(downlink_cqi[u]).data
              /\ downlink_mcs_data[u] # None =>
                    downlink_bitrate[u] =
                        estimate_throughput(downlink_mcs_data[u][1].modulation_order,
                                            downlink_mcs_data[u][1].target_code_rate,
                                            prb_ue_allocation_dict[u].downlink)

\* ------------------------------------------- the slice budgets of Step 2

\* Weight mappings a controller can leave in slice_weights: the default, its
\* multiple by 10, all-zero weights (three slices and one), the empty
\* mapping, one and two slices, equal weights, a negative weight, and
\* weights whose shares leave equal remainders.
Stage2Weights ==
    { RAN_DEFAULT_SLICE_WEIGHTS,
      [s \in Slices |-> 10 * RAN_DEFAULT_SLICE_WEIGHTS[s]],
      [s \in Slices |-> 0],
      [s \in {"eMBB"} |-> 0],
      [s \in {} |-> 0],
      [s \in {"eMBB"} |-> 1],
      [s \in {"eMBB", "mMTC"} |-> 1],
      [s \in Slices |-> 1],
      [s \in Slices |-> CASE s = "eMBB" -> 2 [] s = "URLLC" -> -1 [] s = "mMTC" -> 1],
      [s \in Slices |-> CASE s = "eMBB" -> 1 [] s = "URLLC" -> 0 [] s = "mMTC" -> 3],
      [s \in Slices |-> CASE s = "eMBB" -> 7 [] s = "URLLC" -> 2 [] s = "mMTC" -> 1] }

\* A cell of any size up to MaxStage2Budget with no UE attached.
InitStage2 ==
    /\ max_dl_prb \in 0 .. MaxStage2Budget
    /\ connected_ue_list = {}
    /\ prb_ue_allocation_dict = EmptyMap
    /\ ue_uplink_signal_strength_dict = {}
    /\ dl_total_prb_demand = EmptyMap
    /\ dl_throughput_per_prb_map = EmptyMap
    /\ prb_per_ue_cap = None
    /\ slice_weights = RAN_DEFAULT_SLICE_WEIGHTS
    /\ downlink_cqi = [u \in UEs |-> 0]
    /\ GBR_DL = [u \in UEs |-> 0]
    /\ slice_type = [u \in UEs |-> "eMBB"]
    /\ downlink_mcs_index = [u \in UEs |-> -1]
    /\ downlink_mcs_data = [u \in UEs |-> None]
    /\ downlink_bitrate = [u \in UEs |-> 0]
    /\ dl_buffer_bytes = InitialBuffers
    /\ downlink_latency = [u \in UEs |-> None]
    /\ pc = "idle"
    /\ local_weights = EmptyMap
    /\ logger_file = "None"
    /\ logger_writer = "None"
    /\ csv_rows = 0
    /\ raised = "none"
    /\ last_op = "other"

\* The controller writes a weight mapping; Step 2 of the next pass computes
\* the slice budgets from max_dl_prb and that mapping.
NextStage2 == \E w \in Stage2Weights : set_slice_weights(w)

SpecStage2 == InitStage2 /\ [][NextStage2]_vars

\* Every weight of w multiplied by k.
Scaled(w, k) == [s \in DOMAIN w |-> k * w[s]]

\* Every negative weight of w replaced by 0.
Clamped(w) == [s \in DOMAIN w |-> Max(0, w[s])]

\* Positive factors the weights are multiplied by.
ScaleFactors == {2, 10, 100}

\* C19. Weight normalisation: multiplying every slice weight by a positive
\* factor k leaves the slice budgets of Step 2 unchanged, whatever rounding
\* the two float computations undergo, and a negative weight gives the
\* budgets that weight 0 gives.
C19_WeightNormalisation ==
    /\ \A k \in ScaleFactors :
          \A t1 \in TieOrdersFor(slice_weights),
             t2 \in TieOrdersFor(Scaled(slice_weights, k)) :
              SliceBudgets(max_dl_prb, Scaled(slice_weights, k), t2)
                  = SliceBudgets(max_dl_prb, slice_weights, t1)
    /\ \A ties \in TieOrdersFor(slice_weights) :
          SliceBudgets(max_dl_prb, Clamped(slice_weights), ties)
              = SliceBudgets(max_dl_prb, slice_weights, ties)

\* C20. Stage 2 partition: for every weight mapping the slice budgets are
\* integers that are at least 0 and sum exactly to max_dl_prb.
C20_Stage2Partition ==
    \A ties \in TieOrdersFor(slice_weights) :
        LET slice_budget == SliceBudgets(max_dl_prb, slice_weights, ties)
        IN /\ \A s \in DOMAIN slice_budget : slice_budget[s] \in Nat
           /\ SumOver(slice_budget, DOMAIN slice_budget) = max_dl_prb

\* The configured slices without a UE with Stage-1 demand in the pass just
\* run, and the sum of their budgets.
PassEmptySlices == (DOMAIN WeightsInUse(slice_weights)) \ {PassReqs[u].slice : u \in DOMAIN PassReqs}

PassEmptyBudget(ties) ==
    SumOver(SliceBudgets(max_dl_prb, slice_weights, ties), PassEmptySlices)

\* C21. Empty-slice budget: the budget of a configured slice without a UE
\* with demand is not part of the global leftover of Step 4: the leftover is
\* at most what the slices with UEs leave, the alloc map of Steps 2 to 4
\* sums to at most max_dl_prb minus the budgets of the empty slices, and so
\* does the allocation map the pass leaves.
C21_EmptySliceBudget ==
    (last_op = "step" /\ DOMAIN PassReqs # {}) =>
        \A ties \in PassTies :
            /\ PassLeftover(ties)
                   <= SumOver(SliceBudgets(max_dl_prb, slice_weights, ties),
                              (DOMAIN WeightsInUse(slice_weights)) \ PassEmptySlices)
            /\ SumOver(PassAlloc(ties), DOMAIN PassReqs) <= max_dl_prb - PassEmptyBudget(ties)
            /\ allocated_dl_prb <= max_dl_prb - PassEmptyBudget(ties)

\* A pass in which a UE wants more than Steps 2 to 4 give it while a
\* configured slice without UEs holds a PRB.
C21_Witness ==
    /\ last_op = "step"
    /\ PassEmptyBudget(NameOrder) > 0
    /\ \E u \in DOMAIN PassReqs :
          /\ PassAlloc(NameOrder)[u] > 0
          /\ PassAlloc(NameOrder)[u] < PassDesired[u]

\* C22. Zero slice budget: a UE whose slice has a Stage-2 budget of 0 (its
\* weight is 0 or the mapping does not name the slice) gets no PRB in the
\* pass, in the alloc map of Steps 2 to 4 and in the allocation map the pass
\* leaves, and the pass raises no fault.
C22_ZeroSliceBudget ==
    last_op = "step" =>
        \A u \in DOMAIN PassReqs, ties \in PassTies :
            PassBudget(PassReqs[u].slice, ties) = 0 =>
                /\ raised = "none"
                /\ prb_ue_allocation_dict[u].downlink = 0
                /\ PassAlloc(ties)[u] = 0

\* What Steps 2 to 4 compute for a UE of a slice with budget 0.
C22_Stages ==
    last_op = "step" =>
        \A u \in DOMAIN PassReqs, ties \in PassTies :
            PassBudget(PassReqs[u].slice, ties) = 0 => PassAlloc(ties)[u] = 0

\* C23. Uplink is never allocated: in every reachable state every uplink
\* entry of the allocation map is 0, and so is allocated_ul_prb.
C23_UplinkNeverAllocated ==
    /\ \A u \in DOMAIN prb_ue_allocation_dict : prb_ue_allocation_dict[u].uplink = 0
    /\ allocated_ul_prb = 0

\* After a pass with a demanding UE, while another UE is attached that has
\* gone through no pass yet.
C23_Witness ==
    /\ \E u \in connected_ue_list : u \in DOMAIN dl_total_prb_demand
    /\ \E v \in connected_ue_list : v \notin ue_uplink_signal_strength_dict
    /\ last_op = "other"

\* C24. Observability maps: after each pass dl_total_prb_demand and
\* dl_throughput_per_prb_map have as keys exactly the connected UEs whose
\* MCS was resolved in that pass, and no operation other than a pass changes
\* either map (so the entry of a UE deregistered after the pass stays until
\* the next pass).
C24_ObservabilityMaps ==
    /\ [](last_op = "step" =>
            /\ DOMAIN dl_total_prb_demand =
                   {u \in connected_ue_list : downlink_mcs_data[u] # None}
            /\ DOMAIN dl_throughput_per_prb_map = DOMAIN dl_total_prb_demand)
    /\ [][last_op' # "step" =>
             UNCHANGED << dl_total_prb_demand, dl_throughput_per_prb_map >>]_vars

\* A UE deregistered after a pass still has its demand entry, while a
\* connected UE has none.
C24_Witness ==
    /\ last_op = "other"
    /\ \E u \in DOMAIN dl_total_prb_demand : u \notin connected_ue_list
    /\ \E v \in connected_ue_list : v \notin DOMAIN dl_throughput_per_prb_map

\* C25. Signal map replacement: after every step the keys of
\* ue_uplink_signal_strength_dict are exactly the UEs connected during that
\* step; a UE deregistered before the step has no entry.
C25_SignalMapReplacement ==
    last_op = "step" => ue_uplink_signal_strength_dict = connected_ue_list

\* A step has run after the deregistration of a UE that reported a channel
\* quality in an earlier tick.
C25_Witness ==
    /\ last_op = "step"
    /\ connected_ue_list # {}
    /\ \E u \in UEs : u \notin connected_ue_list /\ downlink_cqi[u] # 0

\* The connected UEs without MCS data: the ones the estimation skips.
SkippedUEs == {u \in connected_ue_list : downlink_mcs_data[u] = None}

\* C26. Stale bitrate frame: a step leaves the bitrate, the latency and the
\* buffer of a connected UE without resolved MCS as they were before the
\* tick and its downlink allocation at 0; the estimation applied to the
\* state the pass leaves writes none of the three either, for any tick
\* length, and Step 1 records no demand for the UE.
C26_StaleBitrateFrame ==
    /\ [][last_op' = "step" =>
             \A u \in connected_ue_list' :
                 downlink_mcs_data'[u] = None =>
                     /\ downlink_bitrate'[u] = downlink_bitrate[u]
                     /\ downlink_latency'[u] = downlink_latency[u]
                     /\ dl_buffer_bytes'[u] = dl_buffer_bytes[u]
                     /\ prb_ue_allocation_dict'[u].downlink = 0]_vars
    /\ [](last_op = "step" =>
            \A u \in SkippedUEs, delta_time \in DeltaTimes :
                /\ u \notin DOMAIN PassReqs
                /\ estimate_ue_bitrate(connected_ue_list, prb_ue_allocation_dict,
                                       downlink_mcs_data, downlink_bitrate)[u]
                       = downlink_bitrate[u]
                /\ estimate_ue_buffer(connected_ue_list, prb_ue_allocation_dict,
                                      downlink_mcs_data, dl_buffer_bytes, delta_time)[u]
                       = dl_buffer_bytes[u]
                /\ estimate_ue_latency(connected_ue_list, prb_ue_allocation_dict,
                                       downlink_mcs_data, dl_buffer_bytes,
                                       downlink_latency, delta_time)[u]
                       = downlink_latency[u])

\* A tick in which a UE with a buffer reports an unusable channel quality
\* while another UE has a resolved MCS and a demand.
C26_Witness ==
    /\ last_op = "step"
    /\ \E u \in SkippedUEs : dl_buffer_bytes[u] # None
    /\ \E v \in DOMAIN PassReqs : PassReqs[v].want > 0

\* C27. Buffer drain: after a step, a connected UE with resolved MCS and a
\* buffer has its buffer decreased by min((bitrate / 8) * delta_time, buffer),
\* where bitrate is the one of the tick, and its latency written: the
\* remaining buffer over bitrate / 8 when the bitrate is positive, 0 when
\* it is 0.
C27_BufferDrain ==
    [][last_op' = "step" =>
          \A u \in connected_ue_list' :
              (downlink_mcs_data'[u] # None /\ dl_buffer_bytes[u] # None) =>
                  \E delta_time \in DeltaTimes :
                      LET bitrate == downlink_bitrate'[u]
                          remaining == dl_buffer_bytes[u][1]
                                         - Min(bitrate * delta_time, dl_buffer_bytes[u][1])
                      IN /\ dl_buffer_bytes'[u] = Some(remaining)
                         /\ remaining >= 0
                         /\ remaining <= dl_buffer_bytes[u][1]
                         /\ downlink_latency'[u] # None
                         /\ IF bitrate > 0
                            THEN downlink_latency'[u][1].num * bitrate
                                     = remaining * downlink_latency'[u][1].den
                            ELSE downlink_latency'[u][1].num = 0]_vars

\* What the estimation computes when it is applied to the state a pass
\* leaves, with the alloc map of Steps 2 to 4 committed.
C27_Estimator ==
    last_op = "step" =>
        \A ties \in PassTies, delta_time \in DeltaTimes :
            LET allocation == Commit(prb_ue_allocation_dict, PassAlloc(ties))
                bitrate == estimate_ue_bitrate(connected_ue_list, allocation,
                                               downlink_mcs_data, downlink_bitrate)
                buffer == estimate_ue_buffer(connected_ue_list, allocation,
                                             downlink_mcs_data, dl_buffer_bytes, delta_time)
                latency == estimate_ue_latency(connected_ue_list, allocation,
                                               downlink_mcs_data, dl_buffer_bytes,
                                               downlink_latency, delta_time)
            IN \A u \in DOMAIN PassReqs :
                  dl_buffer_bytes[u] # None =>
                      /\ buffer[u][1] = dl_buffer_bytes[u][1]
                                          - Min(bitrate[u] * delta_time, dl_buffer_bytes[u][1])
                      /\ buffer[u][1] >= 0
                      /\ buffer[u][1] <= dl_buffer_bytes[u][1]
                      /\ latency[u] # None
                      /\ IF bitrate[u] > 0
                         THEN latency[u][1].num * bitrate[u] = buffer[u][1] * latency[u][1].den
                         ELSE latency[u][1].num = 0

\* What earlier ticks can have left behind: an allocation map over the
\* connected UEs and an MCS selection per UE.
PriorAllocations(connected) ==
    [connected -> {ZeroAllocation, [downlink |-> 1, uplink |-> 0]}]

PriorMcsData ==
    [UEs -> {None} \cup {Some(RAN_MCS_SPECTRAL_EFFICIENCY_TABLE[i]) :
                            i \in DOMAIN RAN_MCS_SPECTRAL_EFFICIENCY_TABLE}]

\* C28. Tick statelessness: what a tick leaves (the allocation map, the
\* demand map, the exception, the MCS selections and the requirements of
\* Step 1, from which Steps 2 to 4 compute the alloc map) is what its passes
\* leave when they run on the tick's inputs from any other allocation map
\* and any other MCS selection: it depends on the tick's inputs only, so a
\* UE whose CQI was unusable in the tick before is treated as if that tick
\* had not happened.
C28_TickStatelessness ==
    last_op = "step" =>
        /\ \A prior \in PriorAllocations(connected_ue_list) :
              LET results == allocate_prb_results(connected_ue_list, prior, downlink_mcs_data,
                                                  GBR_DL, slice_type, max_dl_prb,
                                                  slice_weights, prb_per_ue_cap)
              IN /\ prb_ue_allocation_dict \in {r.allocation : r \in results}
                 /\ \A r \in results : r.raised = raised /\ r.demand = dl_total_prb_demand
        /\ \A prior \in PriorMcsData :
              LET data == select_ue_mcs_data(connected_ue_list, downlink_cqi, prior)
              IN /\ \A u \in connected_ue_list : data[u] = downlink_mcs_data[u]
                 /\ ue_prb_requirements(connected_ue_list, data, GBR_DL, slice_type)
                        = PassReqs

\* A degenerate tick has just run: a connected UE with a guaranteed bit rate
\* reported an unusable channel quality and holds no PRB, while the cell has
\* PRBs; the next tick can find its channel usable again.
C28_Witness ==
    /\ last_op = "step"
    /\ max_dl_prb > 0
    /\ \E u \in connected_ue_list :
          /\ UnusableCqi(downlink_cqi[u])
          /\ downlink_mcs_data[u] = None
          /\ GBR_DL[u] > 0
          /\ prb_ue_allocation_dict[u].downlink = 0
          /\ \E c \in CqiValues : ~UnusableCqi(c)

C29_AllocationMap ==
    prb_per_ue_cap # None =>
        \A u \in DOMAIN prb_ue_allocation_dict :
            prb_ue_allocation_dict[u].downlink <= prb_per_ue_cap[1]

\* --------------------------------------------- a pass with concurrent writes

\* The dashboard runs in a thread of its own and takes only its own lock, so
\* its writes of cell.prb_per_ue_cap and cell.slice_weights fall anywhere
\* between two steps of the simulation thread. A pass reads the two fields at
\* lines 306 and 330 and nowhere else, so it is cut at these two lines (and
\* at line 313, where the file as it is leaves the pass).

\* Channel qualities reported in this specification.
PassCqiValues == {0, 3}

InitPass ==
    /\ max_dl_prb = MaxDlPrb
    /\ connected_ue_list = {}
    /\ prb_ue_allocation_dict = EmptyMap
    /\ ue_uplink_signal_strength_dict = {}
    /\ dl_total_prb_demand = EmptyMap
    /\ dl_throughput_per_prb_map = EmptyMap
    /\ prb_per_ue_cap = None
    /\ slice_weights = RAN_DEFAULT_SLICE_WEIGHTS
    /\ downlink_cqi = [u \in UEs |-> 0]
    /\ GBR_DL = [u \in UEs |-> 3]
    /\ slice_type \in [UEs -> UeSlices]
    /\ downlink_mcs_index = [u \in UEs |-> -1]
    /\ downlink_mcs_data = [u \in UEs |-> None]
    /\ downlink_bitrate = [u \in UEs |-> 0]
    /\ dl_buffer_bytes = InitialBuffers
    /\ downlink_latency = [u \in UEs |-> None]
    /\ pc = "idle"
    /\ local_weights = EmptyMap
    /\ logger_file = "None"
    /\ logger_writer = "None"
    /\ csv_rows = 0
    /\ raised = "none"
    /\ last_op = "other"

\* Cell.step up to line 305 of allocate_prb: signal estimation, MCS
\* selection, the reset, Step 1 and the two observability maps; with no
\* demanding UE the pass ends at line 301 (and the estimation that would
\* follow skips every UE, none having MCS data).
step_to_line_306(reported) ==
    LET cqi == [u \in UEs |-> IF u \in connected_ue_list THEN reported[u]
                              ELSE downlink_cqi[u]]
        index == select_ue_mcs_index(connected_ue_list, cqi, downlink_mcs_index)
        data == select_ue_mcs_data(connected_ue_list, cqi, downlink_mcs_data)
        reqs == ue_prb_requirements(connected_ue_list, data, GBR_DL, slice_type)
    IN /\ pc = "idle"
       /\ downlink_cqi' = cqi
       /\ ue_uplink_signal_strength_dict' = monitor_ue_signal_strength_result(connected_ue_list)
       /\ downlink_mcs_index' = index
       /\ downlink_mcs_data' = data
       /\ prb_ue_allocation_dict' = ResetPRBs(connected_ue_list, prb_ue_allocation_dict)
       /\ dl_total_prb_demand' = [u \in DOMAIN reqs |-> reqs[u].want]
       /\ dl_throughput_per_prb_map' = [u \in DOMAIN reqs |-> reqs[u].tput_per_prb]
       /\ IF DOMAIN reqs = {}
          THEN /\ raised' = IF allocated_dl_prb_has_setter THEN "none" ELSE "AttributeError"
               /\ pc' = "idle"
               /\ last_op' = "step"
          ELSE /\ raised' = "none"
               /\ pc' = "line306"
               /\ last_op' = "other"
       /\ UNCHANGED << max_dl_prb, connected_ue_list, prb_per_ue_cap, slice_weights,
                       GBR_DL, slice_type, downlink_bitrate, dl_buffer_bytes,
                       downlink_latency, local_weights, logger_vars >>

\* Line 306: weights = dict(getattr(self, "slice_weights", {})), the one
\* read of the field in the pass.
line_306 ==
    /\ pc = "line306"
    /\ local_weights' = slice_weights
    /\ pc' = "line313"
    /\ UNCHANGED << max_dl_prb, connected_ue_list, prb_ue_allocation_dict,
                    ue_uplink_signal_strength_dict, dl_total_prb_demand,
                    dl_throughput_per_prb_map, prb_per_ue_cap, slice_weights,
                    ue_vars, raised, last_op, logger_vars >>

\* The rest of the pass and of the step. Line 313 raises NameError; past it,
\* Stage 2 works on the local weights, line 330 reads the cap, the one read
\* of that field, and Steps 3 and 4, Commit and the estimation follow.
allocate_prb_from_line_313(delta_time) ==
    /\ pc \in {"line313", "line330"}
    /\ IF pc = "line313" /\ ~collections_is_imported
       THEN /\ raised' = "NameError"
            /\ pc' = "idle"
            /\ last_op' = "step"
            /\ UNCHANGED << prb_ue_allocation_dict, downlink_bitrate, dl_buffer_bytes,
                            downlink_latency >>
       ELSE IF pc = "line313"
       THEN /\ pc' = "line330"
            /\ UNCHANGED << prb_ue_allocation_dict, downlink_bitrate, dl_buffer_bytes,
                            downlink_latency, raised, last_op >>
       ELSE \E ties \in TieOrdersFor(local_weights) :
               LET allocation == Commit(prb_ue_allocation_dict,
                                        FinalAlloc(PassReqs, max_dl_prb, local_weights,
                                                   prb_per_ue_cap, ties))
                   fault == IF allocated_dl_prb_has_setter THEN "none" ELSE "AttributeError"
               IN /\ prb_ue_allocation_dict' = allocation
                  /\ raised' = fault
                  /\ downlink_bitrate' =
                        IF fault = "none"
                        THEN estimate_ue_bitrate(connected_ue_list, allocation,
                                                 downlink_mcs_data, downlink_bitrate)
                        ELSE downlink_bitrate
                  /\ dl_buffer_bytes' =
                        IF fault = "none"
                        THEN estimate_ue_buffer(connected_ue_list, allocation,
                                                downlink_mcs_data, dl_buffer_bytes, delta_time)
                        ELSE dl_buffer_bytes
                  /\ downlink_latency' =
                        IF fault = "none"
                        THEN estimate_ue_latency(connected_ue_list, allocation,
                                                 downlink_mcs_data, dl_buffer_bytes,
                                                 downlink_latency, delta_time)
                        ELSE downlink_latency
                  /\ pc' = "idle"
                  /\ last_op' = "step"
    /\ UNCHANGED << max_dl_prb, connected_ue_list, ue_uplink_signal_strength_dict,
                    dl_total_prb_demand, dl_throughput_per_prb_map, prb_per_ue_cap,
                    slice_weights, downlink_cqi, GBR_DL, slice_type, downlink_mcs_index,
                    downlink_mcs_data, local_weights, logger_vars >>

NextPass ==
    \/ \E u \in UEs : pc = "idle" /\ register_ue(u)
    \/ \E reported \in [connected_ue_list -> PassCqiValues] : step_to_line_306(reported)
    \/ line_306
    \/ \E delta_time \in DeltaTimes : allocate_prb_from_line_313(delta_time)
    \/ \E c \in CapValues : set_cap(c)
    \/ \E w \in WeightChoices : set_slice_weights(w)

SpecPass == InitPass /\ [][NextPass]_vars

\* A pass that reads the field slice_weights again at each use.
weights_in_pass_reread(read_at_306, field) == field

\* The weights Stage 2 works on: the local bound at line 306, whatever the
\* field holds by then.
weights_in_pass(read_at_306, field) == read_at_306

\* The cap Steps 3 and 4 work on: the local bound at line 330.
cap_in_pass(read_at_330, field) == read_at_330

\* The alloc map of Steps 2 to 4 in a pass that found w306 in the field
\* slice_weights at line 306 and c330 in the field prb_per_ue_cap at line
\* 330, while the fields hold w_later and c_later when the values are used.
InterruptedAlloc(reqs, budget, w306, w_later, c330, c_later, ties) ==
    LET slice_budget == SliceBudgets(budget, weights_in_pass(w306, w_later), ties)
        alloc == Stage3Alloc(reqs, slice_budget, c330)
        add == Stage4Add(reqs, alloc, GlobalLeftover(reqs, slice_budget, c330),
                         cap_in_pass(c330, c_later))
    IN [u \in DOMAIN reqs |-> alloc[u] + add[u]]

RegistrationOrders(S) ==
    {o \in [1 .. Cardinality(S) -> S] : \A i, j \in DOMAIN o : o[i] = o[j] => i = j}

\* Tuple comparison of (remainder, imsi, want): x sorts before y under
\* reverse=True.
TupleGreater(x, y, rem) == rem[x] > rem[y] \/ (rem[x] = rem[y] /\ x > y)

RECURSIVE InsertReverse_remainder_only(_, _, _)
\* An insertion that compares the remainders alone, as a sort with
\* key=lambda t: t[0] does: UEs with equal remainders stay in list order.
InsertReverse_remainder_only(x, sorted, rem) ==
    IF sorted = << >> THEN << x >>
    ELSE IF rem[Head(sorted)] >= rem[x]
         THEN << Head(sorted) >> \o InsertReverse_remainder_only(x, Tail(sorted), rem)
         ELSE << x >> \o sorted

RECURSIVE InsertReverse(_, _, _)
\* x put at its place in a list already sorted in reverse.
InsertReverse(x, sorted, rem) ==
    IF sorted = << >> THEN << x >>
    ELSE IF TupleGreater(Head(sorted), x, rem)
         THEN << Head(sorted) >> \o InsertReverse(x, Tail(sorted), rem)
         ELSE << x >> \o sorted

RECURSIVE SortReverseList(_, _)
\* list.sort(reverse=True) of the tuples of the UEs of list, a stable sort:
\* the elements are put in place one by one, from the first of the list on.
SortReverseList(list, rem) ==
    IF list = << >> THEN << >>
    ELSE InsertReverse(list[Len(list)], SortReverseList(SubSeq(list, 1, Len(list) - 1), rem), rem)

\* The elements of a list.
Range(list) == {list[i] : i \in DOMAIN list}

\* Proportional floor + remainders over the UEs of list, in list order.
OrderedShare(list, limit, B) ==
    LET S == Range(list)
        total == SumOver(limit, S)
        b == [u \in S |-> (B * limit[u]) \div total]
        rem == [u \in S |-> (B * limit[u]) % total]
        base_alloc == [u \in S |-> Min(b[u], limit[u])]
        used == SumOver(base_alloc, S)
        L == Max(0, B - used)
    IN GiveRemainders(SortReverseList(list, rem), L, base_alloc, limit)

\* Steps 2 to 4 on ue_prb_requirements built in the registration order
\* order: slice_to_imsis[s] lists the UEs of slice s in that order.
OrderedFinalAlloc(order, reqs, budget, weights, cap, ties) ==
    LET slice_budget == SliceBudgets(budget, weights, ties)
        InSlice(s) == SelectSeq(order, LAMBDA u : reqs[u].slice = s)
        desired == [u \in DOMAIN reqs |-> Desired(reqs[u].want, cap)]
        Stage3(u) ==
            LET s == reqs[u].slice
                B == IF s \in DOMAIN slice_budget THEN slice_budget[s] ELSE 0
                total_desired == SumOver(desired, Range(InSlice(s)))
            IN IF B <= 0 \/ total_desired = 0 THEN 0
               ELSE IF total_desired <= B THEN desired[u]
               ELSE OrderedShare(InSlice(s), desired, B)[u]
        alloc == [u \in DOMAIN reqs |-> Stage3(u)]
        global_leftover == GlobalLeftover(reqs, slice_budget, cap)
        room == [u \in DOMAIN reqs |-> Max(0, desired[u] - alloc[u])]
        add == IF global_leftover > 0 /\ SumOver(room, DOMAIN reqs) > 0
               THEN OrderedShare(order, room, global_leftover)
               ELSE [u \in DOMAIN reqs |-> 0]
    IN [u \in DOMAIN reqs |-> alloc[u] + add[u]]

\* C31. Registration-order independence: for the UEs, weights, cap and
\* max_dl_prb of a pass, the alloc map Steps 2 to 4 compute for Commit is the
\* same for every order in which the UEs were registered (equal remainders
\* are ordered by the imsi), and so is the allocation map the pass leaves.
C31_RegistrationOrderIndependence ==
    last_op = "step" =>
        /\ \A ties \in PassTies, order \in RegistrationOrders(DOMAIN PassReqs) :
              OrderedFinalAlloc(order, PassReqs, max_dl_prb, slice_weights,
                                prb_per_ue_cap, ties) = PassAlloc(ties)
        /\ \A r \in allocate_prb_results(connected_ue_list, prb_ue_allocation_dict,
                                         downlink_mcs_data, GBR_DL, slice_type, max_dl_prb,
                                         slice_weights, prb_per_ue_cap) :
              collections_is_imported \/ r.allocation = prb_ue_allocation_dict

\* A pass with two UEs of one slice that want the same and are granted
\* different amounts: the tie of their remainders was broken.
C31_Witness ==
    /\ last_op = "step"
    /\ \E u, v \in DOMAIN PassReqs :
          /\ u # v
          /\ PassReqs[u].slice = PassReqs[v].slice
          /\ PassReqs[u].want = PassReqs[v].want
          /\ PassAlloc(NameOrder)[u] # PassAlloc(NameOrder)[v]

\* floor(B * desired_u / total_desired), the whole part of the exact
\* proportional share of UE u in a slice with budget B.
QuotaFloor(u, B, total_desired) == (B * PassDesired[u]) \div total_desired

\* C32. Quota property: in an oversubscribed slice (total desired demand
\* above the budget B > 0) Step 3 grants every UE u of the slice
\* floor(B * desired_u / total_desired) or one more, for the budget of the
\* pass and for every other budget below the slice's total desired demand.
C32_Quota ==
    last_op = "step" =>
        \A s \in Slices :
            /\ \A ties \in PassTies :
                  (PassBudget(s, ties) > 0 /\ PassSliceDesired(s) > PassBudget(s, ties)) =>
                      \A u \in PassSliceUEs(s) :
                          PassStage3(ties)[u] - QuotaFloor(u, PassBudget(s, ties),
                                                           PassSliceDesired(s)) \in {0, 1}
            /\ \A B \in 1 .. MaxStage2Budget :
                  PassSliceDesired(s) > B =>
                      \A u \in PassSliceUEs(s) :
                          ProportionalShare(PassSliceUEs(s), PassDesired, B)[u]
                              - QuotaFloor(u, B, PassSliceDesired(s)) \in {0, 1}

\* A pass with an oversubscribed slice in which one UE is granted the floor
\* of its share, at least 1, and another one the floor plus 1.
C32_Witness ==
    /\ last_op = "step"
    /\ \E s \in Slices, u, v \in DOMAIN PassReqs :
          LET B == PassBudget(s, NameOrder)
          IN /\ u \in PassSliceUEs(s)
             /\ v \in PassSliceUEs(s)
             /\ PassSliceDesired(s) > B
             /\ QuotaFloor(u, B, PassSliceDesired(s)) >= 1
             /\ PassStage3(NameOrder)[u] = QuotaFloor(u, B, PassSliceDesired(s))
             /\ PassStage3(NameOrder)[v] = QuotaFloor(v, B, PassSliceDesired(s)) + 1

\* ------------------------------------------------------------ the KPI logger

\* xAppKpiLogger.enabled: set to True by __init__ and written nowhere else.
logger_enabled == TRUE

cell_vars == << max_dl_prb, prb_ue_allocation_dict, ue_uplink_signal_strength_dict,
                dl_total_prb_demand, dl_throughput_per_prb_map, prb_per_ue_cap,
                slice_weights, ue_vars, pass_vars >>

\* xAppKpiLogger.start: the file is opened for writing (an existing file is
\* truncated), a writer is made on it and the header row is written.
logger_start ==
    /\ logger_file' = "open"
    /\ logger_writer' = "open"
    /\ csv_rows' = 1
    /\ raised' = "none"
    /\ last_op' = "logger_start"
    /\ UNCHANGED << cell_vars, connected_ue_list >>

\* xAppKpiLogger.stop: an open file is flushed and closed and _file is set
\* to None; _writer is left as it is, on the file object just closed.
logger_stop ==
    /\ IF logger_file # "None"
       THEN /\ logger_file' = "None"
            /\ logger_writer' = "closed"
       ELSE UNCHANGED << logger_file, logger_writer >>
    /\ raised' = "none"
    /\ last_op' = "logger_stop"
    /\ UNCHANGED << cell_vars, connected_ue_list, csv_rows >>

\* xAppKpiLogger.step: nothing when the logger is disabled or has no writer;
\* else one writerow per UE that has a cell; writerow on a closed file raises
\* ValueError.
logger_step ==
    /\ csv_rows + Cardinality(connected_ue_list) <= MaxCsvRows
    /\ IF ~logger_enabled \/ logger_writer = "None" \/ connected_ue_list = {}
       THEN /\ raised' = "none"
            /\ UNCHANGED csv_rows
       ELSE IF logger_writer = "closed"
       THEN /\ raised' = "ValueError"
            /\ UNCHANGED csv_rows
       ELSE /\ raised' = "none"
            /\ csv_rows' = csv_rows + Cardinality(connected_ue_list)
    /\ last_op' = "logger_step"
    /\ UNCHANGED << cell_vars, connected_ue_list, logger_file, logger_writer >>

\* The logger's calls, with UEs attaching to the cell and leaving it.
NextLogger ==
    \/ logger_start
    \/ logger_stop
    \/ logger_step
    \/ \E u \in UEs : register_ue(u)
    \/ \E u \in UEs : deregister_ue(u)

SpecLogger == Init /\ [][NextLogger]_vars

\* C33. KPI logger lifecycle: a step of the logger adds rows only while the
\* CSV file is open; before the first start and after a stop it adds none
\* and raises no error.
C33_LoggerLifecycle ==
    [][last_op' = "logger_step" =>
          /\ raised' = "none"
          /\ csv_rows' # csv_rows => logger_file = "open"
          /\ logger_file = "None" => csv_rows' = csv_rows]_vars

====
